---------------------------- MODULE Spec2Model ----------------------------
(***************************************************************************)
(* A model of mne/io/eeglab/eeglab.py: the EEGLAB .set reader.             *)
(*                                                                         *)
(*   _get_info                   header -> measurement info                *)
(*   RawSet.__init__             open a continuous recording               *)
(*   RawSet._read_segment_file   chunked read of the external blob         *)
(*   EpochsSet.__init__          open a segmented recording                *)
(*                                                                         *)
(* One behaviour is one call of one entry point.  Init draws the call's    *)
(* arguments, the header record read from the .set file and the size of    *)
(* the external blob; the actions are the steps of the called function.    *)
(*                                                                         *)
(* Python values: None is <<>> and a value v that may be None is <<v>>;    *)
(* a dict is a function; an array is a sequence (a 2-d array a sequence    *)
(* of rows); a channel name is the sequence of its characters.             *)
(***************************************************************************)
EXTENDS Integers, Sequences, FiniteSets, TLC

VARIABLES
    op,           \* the entry point called: "read", "raw" or "epochs"
    pc,           \* position in the called function
    err,          \* the exception raised, "none" while there is none
    fid,          \* the handle on the external blob: "none", "open", "closed"
    \* ---- the header record eeg (the fields the code reads)
    nbchan, trials, pnts, chanlocs, eegdata, epoch,
    \* ---- the call's arguments
    montage, eog, preload, events_arg, event_id_arg, start, stop,
    \* ---- the environment
    fileLen,      \* number of 4-byte values the external blob holds
    n_blocks,     \* the block budget in values (100000000 // n_bytes in the code)
    \* ---- locals and results
    info, warned, reshaped, blobRead,
    blk_size, blk_starts, pos, data, blocks, reads,
    events, event_id, unique_ev

hdrVars  == <<nbchan, trials, pnts, chanlocs, eegdata, epoch>>
argVars  == <<montage, eog, preload, events_arg, event_id_arg, start, stop>>
envVars  == <<fileLen, n_blocks>>
readVars == <<blk_size, blk_starts, pos, data, blocks, reads>>
evVars   == <<events, event_id, unique_ev>>
rawVars  == <<warned, reshaped, blobRead>>
vars == <<op, pc, err, fid, hdrVars, argVars, envVars, info, rawVars,
          readVars, evVars>>

-----------------------------------------------------------------------------
(* Bounds of the model *)
MaxChan   == 2     \* channels: nbchan, chanlocs entries
MaxSamp   == 4     \* samples of a continuous recording
MaxBudget == 4     \* block budgets 1..MaxBudget stand for 100000000 // 4
MaxTrials == 3     \* trials of a segmented recording
MaxRawTrials == 2  \* trial counts 0..MaxRawTrials on the continuous path

None == <<>>
Some(v) == <<v>>
IsNone(x) == x = <<>>
Val(x) == x[1]

Min(a, b) == IF a <= b THEN a ELSE b

Terminal == pc \in {"returned", "raised"}

RECURSIVE SumSeq(_)
SumSeq(s) == IF s = <<>> THEN 0 ELSE Head(s) + SumSeq(Tail(s))

-----------------------------------------------------------------------------
(* The external blob: 4-byte floats, all channels of sample 0, then all    *)
(* channels of sample 1, ...  Item i (from 0) holds the value BlobValue(i):*)
(* all items differ, so a misplaced item is seen.                          *)
n_bytes == 4

BlobValue(i) == i

(* np.fromfile(fid, dtype=np.float32, count=count) at byte position p: the *)
(* items available, at most count of them; a short file gives fewer items  *)
(* and no error.                                                           *)
FromFileCount(p, count) ==
    LET first == p \div n_bytes
        avail == IF fileLen > first THEN fileLen - first ELSE 0
    IN  Min(count, avail)

FromFile(p, count) ==
    [k \in 1..FromFileCount(p, count) |-> BlobValue((p \div n_bytes) + k - 1)]

(* flat.reshape(nchan, -1, order='F'): defined when the length is a        *)
(* multiple of nchan (an empty array gives nchan rows of no columns).      *)
ReshapeOk(flat, n) == Len(flat) % n = 0

ReshapeC(flat, n) ==
    LET cols == Len(flat) \div n
    IN  [c \in 1..n |-> [j \in 1..cols |-> flat[(c - 1) * cols + j]]]

ReshapeF(flat, n) ==
    LET cols == Len(flat) \div n
    IN  [c \in 1..n |-> [j \in 1..cols |-> flat[(j - 1) * n + c]]]

(* np.arange(0, hi, step): defined for step > 0 *)
Arange(hi, step) ==
    [k \in 1..((hi + step - 1) \div step) |-> (k - 1) * step]

-----------------------------------------------------------------------------
(* RawSet._read_segment_file(data, idx, fi, start, stop, cals, mult)       *)

nchan == Val(info).nchan

data_offset == nchan * start * n_bytes

data_left == (stop - start) * nchan

BlkSizeNoRound == Min(data_left, n_blocks)

BlkSizeInit == Min(data_left, (n_blocks \div nchan) * nchan)

(* The destination buffer the caller passes: nchan rows of stop - start    *)
(* cells, no cell written yet.                                             *)
EmptyData == [c \in 1..nchan |-> [j \in 1..(stop - start) |-> None]]

(* _mult_cal_one(data_view, block, idx, cals, mult) with every channel     *)
(* selected, unit calibration and no mixing: the view data[:, lo:hi] takes *)
(* the block.  lo, hi count columns from 0.                                *)
MultCalOne(d, lo, hi, block) ==
    [c \in 1..nchan |->
        [j \in 1..Len(d[c]) |->
            IF lo < j /\ j <= hi THEN Some(block[c][j - lo]) ELSE d[c][j]]]

(* The with statement's exit: the handle is closed on return and on error. *)
ReadOpen ==
    /\ op = "read" /\ pc = "r_enter"
    /\ blk_size' = BlkSizeInit
    /\ pos' = data_offset
    /\ IF BlkSizeInit = 0
       THEN \* np.arange with a zero step raises; __exit__ closes the file
            /\ pc' = "raised" /\ err' = "ZeroDivisionError"
            /\ fid' = "closed"
            /\ UNCHANGED blk_starts
       ELSE /\ pc' = "r_loop" /\ err' = err
            /\ fid' = "open"
            /\ blk_starts' = [k \in DOMAIN Arange(data_left, BlkSizeInit) |->
                                  Arange(data_left, BlkSizeInit)[k] \div nchan]
    /\ UNCHANGED <<op, hdrVars, argVars, envVars, info, rawVars,
                   data, blocks, reads, evVars>>

ReadBlock ==
    /\ op = "read" /\ pc = "r_loop" /\ blk_starts # <<>>
    /\ LET blk_start == Head(blk_starts)
           size      == Min(blk_size, data_left - blk_start * nchan)
           flat      == FromFile(pos, size)
       IN  /\ blk_size' = size
           /\ reads' = Append(reads, size)
           /\ pos' = pos + Len(flat) * n_bytes
           /\ blk_starts' = Tail(blk_starts)
           /\ IF ReshapeOk(flat, nchan)
              THEN LET block    == ReshapeF(flat, nchan)
                       blk_stop == blk_start + Len(block[1])
                   IN  /\ data' = MultCalOne(data, blk_start, blk_stop, block)
                       /\ blocks' = Append(blocks, [blk_start |-> blk_start,
                                                    blk_stop |-> blk_stop,
                                                    block |-> block])
                       /\ UNCHANGED <<pc, err, fid>>
              ELSE /\ pc' = "raised" /\ err' = "ValueError"
                   /\ fid' = "closed"
                   /\ UNCHANGED <<data, blocks>>
    /\ UNCHANGED <<op, hdrVars, argVars, envVars, info, rawVars, evVars>>

ReadReturn ==
    /\ op = "read" /\ pc = "r_loop" /\ blk_starts = <<>>
    /\ pc' = "returned"
    /\ fid' = "closed"
    /\ UNCHANGED <<op, err, hdrVars, argVars, envVars, info, rawVars,
                   readVars, evVars>>

-----------------------------------------------------------------------------
(* _get_info(eeg, montage, eog)                                            *)

Fp1  == <<"F", "p", "1">>
EOG1 == <<"E", "O", "G", "1">>

StartsWith(s, prefix) ==
    /\ Len(s) >= Len(prefix)
    /\ SubSeq(s, 1, Len(prefix)) = prefix

(* The calibration factor 1e-6, as <<mantissa, exponent>>; a channel that  *)
(* the montage code creates starts with the factor 1.0.                    *)
cal == <<1, -6>>

DefaultCal == <<1, 0>>

(* _empty_info(sfreq): no channels yet *)
EmptyInfo == [nchan |-> 0, chs |-> <<>>]

(* Montage(np.array(pos), ch_names, 'user_defined', selection) built from  *)
(* the header's channel locations, one name and one position per entry.    *)
MontageOfChanlocs(locs) ==
    [ch_names |-> [i \in 1..Len(locs) |-> locs[i].labels],
     pos      |-> [i \in 1..Len(locs) |-> <<locs[i].X, locs[i].Y, locs[i].Z>>],
     is_path  |-> FALSE]

(* _check_update_montage(info, montage, path, update_ch_names=True): with  *)
(* a montage, the info's channels become the montage's channels, in the    *)
(* montage's order; without one, the info is left as it is.                *)
CheckUpdateMontage(inf, mont) ==
    IF IsNone(mont)
    THEN inf
    ELSE LET m == Val(mont)
         IN  [inf EXCEPT !.chs =
                [i \in 1..Len(m.ch_names) |->
                    [ch_name   |-> m.ch_names[i],
                     loc       |-> m.pos[i],
                     cal       |-> DefaultCal,
                     kind      |-> "FIFFV_EEG_CH",
                     coil_type |-> "FIFFV_COIL_EEG"]]]

IsEog(ch, eogArg) ==
    LET names == IF IsNone(eogArg) THEN {} ELSE Val(eogArg)
    IN  StartsWith(ch.ch_name, <<"E", "O", "G">>) \/ ch.ch_name \in names

UpdateCh(ch, eogArg) ==
    IF IsEog(ch, eogArg)
    THEN [ch EXCEPT !.cal = cal,
                    !.coil_type = "FIFFV_COIL_NONE",
                    !.kind = "FIFFV_EOG_CH"]
    ELSE [ch EXCEPT !.cal = cal]

GetInfo(locs, nb, mont, eogArg) ==
    LET info0 == [EmptyInfo EXCEPT !.nchan = nb]
        mont1 == IF Len(locs) > 0 THEN Some(MontageOfChanlocs(locs)) ELSE mont
        info1 == CheckUpdateMontage(info0, mont1)
    IN  [info1 EXCEPT !.chs =
            [i \in 1..Len(info1.chs) |-> UpdateCh(info1.chs[i], eogArg)]]

-----------------------------------------------------------------------------
(* RawSet.__init__(input_fname, montage, eog, preload)                     *)

TrialsLenient(t) == t > 1

TrialsInvalid(t) == t # 1

(* io.loadmat reads the header record; a warning when the data are in the  *)
(* .set file and preload is False.                                         *)
RawLoadHeader ==
    /\ op = "raw" /\ pc = "w_enter"
    /\ warned' = (eegdata = "embedded" /\ ~preload)
    /\ pc' = "w_trials"
    /\ UNCHANGED <<op, err, fid, hdrVars, argVars, envVars, info,
                   reshaped, blobRead, readVars, evVars>>

RawCheckTrials ==
    /\ op = "raw" /\ pc = "w_trials"
    /\ IF TrialsInvalid(trials)
       THEN pc' = "raised" /\ err' = "TypeError"
       ELSE pc' = "w_info" /\ err' = err
    /\ UNCHANGED <<op, fid, hdrVars, argVars, envVars, info, rawVars,
                   readVars, evVars>>

RawGetInfo ==
    /\ op = "raw" /\ pc = "w_info"
    /\ info' = Some(GetInfo(chanlocs, nbchan, montage, eog))
    /\ pc' = "w_data"
    /\ UNCHANGED <<op, err, fid, hdrVars, argVars, envVars, rawVars,
                   readVars, evVars>>

(* _BaseRaw.__init__(info, preload, filenames=[data_fname], ...): the blob *)
(* is read now when preload is set, and on demand otherwise.               *)
RawInitBlob ==
    /\ op = "raw" /\ pc = "w_data" /\ eegdata = "blob"
    /\ blobRead' = preload
    /\ pc' = "returned"
    /\ UNCHANGED <<op, err, fid, hdrVars, argVars, envVars, info, warned,
                   reshaped, readVars, evVars>>

(* eeg.data.reshape(eeg.nbchan, -1, order='F').astype(np.double), handed   *)
(* to _BaseRaw.__init__ as the preloaded data.                             *)
RawInitEmbedded ==
    /\ op = "raw" /\ pc = "w_data" /\ eegdata = "embedded"
    /\ reshaped' = TRUE
    /\ pc' = "returned"
    /\ UNCHANGED <<op, err, fid, hdrVars, argVars, envVars, info, warned,
                   blobRead, readVars, evVars>>

-----------------------------------------------------------------------------
(* EpochsSet.__init__(input_fname, events, event_id, ..., montage)         *)

Range(s) == {s[i] : i \in DOMAIN s}

(* isinstance(ep.eventtype, string_types): loadmat gives one label as a    *)
(* string and no label or several labels as an array.                      *)
IsString(eventtype) == Len(eventtype) = 1

RECURSIVE UniqueEv(_, _)
UniqueEv(types, acc) ==
    IF types = <<>> THEN acc
    ELSE UniqueEv(Tail(types),
                  IF Head(types) \in Range(acc) THEN acc
                  ELSE Append(acc, Head(types)))

(* dict((ev, idx) for idx, ev in enumerate(unique_ev)) *)
EnumDict(u) == [ev \in Range(u) |-> (CHOOSE i \in 1..Len(u) : u[i] = ev) - 1]

(* events[idx, 0] = latency; events[idx, 1:] = code: the slice 1: is the   *)
(* columns 1 and 2 of the row.                                             *)
EventRow(latency, code) == <<latency, code, code>>

CodeColumn(ev) == {ev[i][3] : i \in DOMAIN ev}

(* The function returns or raises with the local data_fid holding the      *)
(* handle and no close(): the handle is closed when the interpreter        *)
(* finalises the file object, which may be then or later.                  *)
FrameExit(h) == IF h = "open" THEN {"open", "closed"} ELSE {h}

EpochsReconstruct ==
    /\ op = "epochs" /\ pc = "e_enter"
    /\ IsNone(events_arg) /\ trials > 1
    /\ IF \E i \in DOMAIN epoch : ~IsString(epoch[i].eventtype)
       THEN /\ pc' = "raised" /\ err' = "ValueError"
            /\ UNCHANGED evVars
       ELSE LET event_type      == [i \in DOMAIN epoch |-> epoch[i].eventtype[1]]
                event_latencies == [i \in DOMAIN epoch |-> epoch[i].eventurevent]
                uniq            == UniqueEv(event_type, <<>>)
                ids             == EnumDict(uniq)
            IN  /\ unique_ev' = Some(uniq)
                /\ event_id' = IF Len(epoch) > 0 THEN Some(ids) ELSE event_id
                /\ events' = Some([idx \in 1..trials |->
                                     EventRow(event_latencies[idx],
                                              ids[event_type[idx]])])
                /\ pc' = "e_info" /\ err' = err
    /\ UNCHANGED <<op, fid, hdrVars, argVars, envVars, info, rawVars, readVars>>

(* events = read_events(events): the rows of the events file *)
EpochsReadEvents ==
    /\ op = "epochs" /\ pc = "e_enter"
    /\ ~IsNone(events_arg) /\ Val(events_arg).is_path
    /\ events' = Some(Val(events_arg).rows)
    /\ pc' = "e_info"
    /\ UNCHANGED <<op, err, fid, hdrVars, argVars, envVars, info, rawVars,
                   readVars, event_id, unique_ev>>

EpochsKeepEvents ==
    /\ op = "epochs" /\ pc = "e_enter"
    /\ ~(IsNone(events_arg) /\ trials > 1)
    /\ ~(~IsNone(events_arg) /\ Val(events_arg).is_path)
    /\ pc' = "e_info"
    /\ UNCHANGED <<op, err, fid, hdrVars, argVars, envVars, info, rawVars,
                   readVars, evVars>>

EpochsGetInfo ==
    /\ op = "epochs" /\ pc = "e_info"
    /\ info' = Some(GetInfo(chanlocs, nbchan, montage, None))
    /\ pc' = "e_default"
    /\ UNCHANGED <<op, err, fid, hdrVars, argVars, envVars, rawVars,
                   readVars, evVars>>

(* if event_id is None: event_id = dict(... enumerate(unique_ev)); the     *)
(* local unique_ev is bound only by the reconstruction branch.             *)
EpochsDefaultEventId ==
    /\ op = "epochs" /\ pc = "e_default"
    /\ IF ~IsNone(event_id)
       THEN pc' = "e_validate" /\ UNCHANGED <<err, event_id>>
       ELSE IF IsNone(unique_ev)
            THEN pc' = "raised" /\ err' = "UnboundLocalError"
                 /\ UNCHANGED event_id
            ELSE pc' = "e_validate" /\ err' = err
                 /\ event_id' = Some(EnumDict(Val(unique_ev)))
    /\ UNCHANGED <<op, fid, hdrVars, argVars, envVars, info, rawVars,
                   readVars, events, unique_ev>>

(* for key, val in event_id.items(): if val not in events[:, 2]: raise *)
EpochsValidate ==
    /\ op = "epochs" /\ pc = "e_validate"
    /\ LET ids == Val(event_id)
       IN  IF DOMAIN ids = {}
           THEN pc' = "e_data" /\ err' = err
           ELSE IF IsNone(events)
                THEN pc' = "raised" /\ err' = "TypeError"
                ELSE IF \E key \in DOMAIN ids : ids[key] \notin CodeColumn(Val(events))
                     THEN pc' = "raised" /\ err' = "ValueError"
                     ELSE pc' = "e_data" /\ err' = err
    /\ UNCHANGED <<op, fid, hdrVars, argVars, envVars, info, rawVars,
                   readVars, evVars>>

(* data_fid = open(data_fname); np.fromfile reads the whole blob;          *)
(* reshape((trials, nbchan, pnts)) needs exactly that many values.         *)
EpochsLoadBlob ==
    /\ op = "epochs" /\ pc = "e_data" /\ eegdata = "blob"
    /\ IF fileLen = trials * nbchan * pnts
       THEN /\ pc' = "e_super" /\ err' = err
            /\ fid' = "open"
       ELSE /\ pc' = "raised" /\ err' = "ValueError"
            /\ fid' \in FrameExit("open")
    /\ UNCHANGED <<op, hdrVars, argVars, envVars, info, rawVars,
                   readVars, evVars>>

(* loadmat(squeeze_me=True) drops the axes of length 1 of eeg.data, which  *)
(* is (nbchan, pnts, trials) in the file; transpose((2, 0, 1)) needs three *)
(* axes.                                                                   *)
EmbeddedShape == SelectSeq(<<nbchan, pnts, trials>>, LAMBDA d : d # 1)

EpochsLoadEmbedded ==
    /\ op = "epochs" /\ pc = "e_data" /\ eegdata = "embedded"
    /\ IF Len(EmbeddedShape) # 3
       THEN pc' = "raised" /\ err' = "ValueError"
       ELSE LET sh == EmbeddedShape
            IN  IF <<sh[3], sh[1], sh[2]>> = <<trials, nbchan, pnts>>
                THEN pc' = "e_super" /\ err' = err
                ELSE pc' = "raised" /\ err' = "AssertionError"
    /\ UNCHANGED <<op, fid, hdrVars, argVars, envVars, info, rawVars,
                   readVars, evVars>>

(* _BaseEpochs.__init__(info, data, events, event_id, tmin, tmax, ...): it *)
(* returns or raises.                                                      *)
EpochsBaseInit ==
    /\ op = "epochs" /\ pc = "e_super"
    /\ \E ok \in BOOLEAN :
          IF ok THEN pc' = "returned" /\ err' = err
                ELSE pc' = "raised" /\ err' = "BaseError"
    /\ fid' \in FrameExit(fid)
    /\ UNCHANGED <<op, hdrVars, argVars, envVars, info, rawVars,
                   readVars, evVars>>

-----------------------------------------------------------------------------
(* The calls *)

Chars == {Fp1, EOG1}

Chanloc(name, i) == [labels |-> name, X |-> i, Y |-> 0, Z |-> 0]

RECURSIVE SeqsUpTo(_, _)
SeqsUpTo(S, n) ==
    IF n = 0 THEN {<<>>}
    ELSE LET shorter == SeqsUpTo(S, n - 1)
         IN  shorter \cup {Append(s, x) : s \in {t \in shorter : Len(t) = n - 1},
                                          x \in S}

ChanlocLists ==
    {[i \in 1..Len(names) |-> Chanloc(names[i], i)] : names \in SeqsUpTo(Chars, MaxChan)}

(* An external montage that names n channels C1, C2, ..., given by its    *)
(* path (read_montage reads it) or as a Montage instance.                  *)
Digit(i) == <<"1", "2", "3", "4", "5", "6", "7", "8", "9">>[i]

ExtMontage(n, isPath) ==
    [ch_names |-> [i \in 1..n |-> <<"C", Digit(i)>>],
     pos      |-> [i \in 1..n |-> <<0, 0, 0>>],
     is_path  |-> isPath]

Montages(n) == {None, Some(ExtMontage(n, TRUE)), Some(ExtMontage(n, FALSE))}

Eogs == {None, Some({Fp1})}

NoReadState ==
    /\ blk_size = 0 /\ blk_starts = <<>> /\ pos = 0
    /\ data = <<>> /\ blocks = <<>> /\ reads = <<>>

NoEventState ==
    /\ events_arg = None /\ event_id_arg = None
    /\ events = None /\ event_id = None /\ unique_ev = None /\ epoch = <<>>

NoRawState == warned = FALSE /\ reshaped = FALSE /\ blobRead = FALSE

(* A call of _read_segment_file on an opened continuous recording, for any *)
(* range within MaxSamp samples, any blob length and any budget.           *)
InitRead ==
    /\ op = "read" /\ pc = "r_enter" /\ err = "none" /\ fid = "none"
    /\ nbchan \in 1..MaxChan
    /\ info = Some([nchan |-> nbchan, chs |-> <<>>])
    /\ trials = 1 /\ pnts = MaxSamp /\ chanlocs = <<>> /\ eegdata = "blob"
    /\ montage = None /\ eog = None /\ preload = FALSE
    /\ stop \in 0..MaxSamp
    /\ start \in 0..stop
    /\ fileLen \in 0..(nbchan * MaxSamp)
    /\ n_blocks \in 1..MaxBudget
    /\ blk_size = 0 /\ blk_starts = <<>> /\ pos = 0
    /\ data = EmptyData
    /\ blocks = <<>> /\ reads = <<>>
    /\ NoEventState /\ NoRawState

(* A call of RawSet: the header lists no channel location or one per       *)
(* channel, and a montage of the caller names as many channels as the      *)
(* header counts.                                                          *)
InitRaw ==
    /\ op = "raw" /\ pc = "w_enter" /\ err = "none" /\ fid = "none"
    /\ nbchan \in 0..MaxChan
    /\ trials \in 0..MaxRawTrials
    /\ pnts = MaxSamp
    /\ chanlocs \in {locs \in ChanlocLists : Len(locs) \in {0, nbchan}}
    /\ eegdata \in {"blob", "embedded"}
    /\ montage \in Montages(nbchan) /\ eog \in Eogs /\ preload \in BOOLEAN
    /\ start = 0 /\ stop = 0
    /\ fileLen = nbchan * pnts /\ n_blocks = MaxBudget
    /\ info = None
    /\ NoReadState /\ NoEventState /\ NoRawState

EventTypes == {<<"a">>, <<"b">>, <<"a", "b">>}

Latency(i) == 10 * i

Epochs(n) == [1..n -> EventTypes]

EventArrays(n) == {[i \in 1..n |-> <<Latency(i), 0, codes[i]>>] : codes \in [1..n -> {0, 1}]}

EventsFile(n) == [i \in 1..n |-> <<Latency(i), 0, i % 2>>]

EventArgs(n) ==
    {None, Some([is_path |-> TRUE, rows |-> EventsFile(n)])}
    \cup {Some([is_path |-> FALSE, rows |-> r]) : r \in EventArrays(n)}

EventIdArgs ==
    {None,
     Some("a" :> 0 @@ "b" :> 1),
     Some("a" :> 1),
     Some("a" :> 5 @@ "b" :> 7),
     Some("c" :> 0),
     Some("c" :> 5)}

InitEpochs ==
    /\ op = "epochs" /\ pc = "e_enter" /\ err = "none" /\ fid = "none"
    /\ nbchan = MaxChan /\ pnts = MaxSamp
    /\ trials \in 0..MaxTrials
    /\ epoch \in {[i \in 1..trials |-> [eventtype |-> types[i],
                                         eventurevent |-> Latency(i)]] :
                    types \in Epochs(trials)}
    /\ chanlocs = [i \in 1..nbchan |-> Chanloc(Fp1, i)]
    /\ eegdata \in {"blob", "embedded"}
    /\ montage = None /\ eog = None /\ preload = FALSE
    /\ events_arg \in EventArgs(trials)
    /\ event_id_arg \in EventIdArgs
    /\ start = 0 /\ stop = 0
    /\ fileLen \in {trials * nbchan * pnts, trials * nbchan * pnts + 1}
    /\ n_blocks = MaxBudget
    /\ info = None
    /\ events = IF IsNone(events_arg) \/ Val(events_arg).is_path
                THEN None ELSE Some(Val(events_arg).rows)
    /\ event_id = event_id_arg
    /\ unique_ev = None
    /\ NoReadState /\ NoRawState

NextRead == ReadOpen \/ ReadBlock \/ ReadReturn

NextRaw ==
    RawLoadHeader \/ RawCheckTrials \/ RawGetInfo \/ RawInitBlob \/ RawInitEmbedded

NextEpochs ==
    \/ EpochsReconstruct \/ EpochsReadEvents \/ EpochsKeepEvents
    \/ EpochsGetInfo \/ EpochsDefaultEventId \/ EpochsValidate
    \/ EpochsLoadBlob \/ EpochsLoadEmbedded \/ EpochsBaseInit

Init == InitRead \/ InitRaw \/ InitEpochs

Next == NextRead \/ NextRaw \/ NextEpochs

Spec == Init /\ [][Next]_vars

SpecRead == InitRead /\ [][NextRead]_vars

SpecRaw == InitRaw /\ [][NextRaw]_vars

SpecEpochs == InitEpochs /\ [][NextEpochs]_vars

-----------------------------------------------------------------------------
(* Properties of _read_segment_file                                        *)

(* The range read in one block: cell (c, j) of the nchan x (stop - start)  *)
(* column-major reshape of the blob's values from sample start on.         *)
OneBlock ==
    [c \in 1..nchan |->
        [j \in 1..(stop - start) |->
            Some(BlobValue(nchan * (start + j - 1) + (c - 1)))]]

BlobHoldsRange == fileLen >= nchan * stop

BudgetHoldsASample == nchan <= n_blocks

BlocksInOrder ==
    \A k \in 1..Len(blocks) :
        /\ blocks[k].blk_start = (IF k = 1 THEN 0 ELSE blocks[k - 1].blk_stop)
        /\ blocks[k].blk_start < blocks[k].blk_stop
        /\ blocks[k].blk_stop <= stop - start
        /\ \A c \in 1..nchan :
             \A j \in 1..(blocks[k].blk_stop - blocks[k].blk_start) :
                blocks[k].block[c][j] =
                    BlobValue(nchan * (start + blocks[k].blk_start + j - 1) + (c - 1))

ChunkedIsOneBlock ==
    /\ pc # "raised"
    /\ (pc = "r_loop" /\ blocks = <<>>) => pos = nchan * start * 4
    /\ BlocksInOrder
    /\ pc = "returned" =>
         /\ blocks # <<>>
         /\ blocks[Len(blocks)].blk_stop = stop - start
         /\ data = OneBlock

(* C1 as stated: for every range [start, stop) the blob holds, and every   *)
(* budget of at least one sample, the read hands on contiguous blocks in   *)
(* increasing order that cover [0, stop - start), and their concatenation  *)
(* is the one-block column-major read of the range.                        *)
C1_AnyRange ==
    (op = "read" /\ BlobHoldsRange /\ BudgetHoldsASample) => ChunkedIsOneBlock

(* C1, amended: the same for every non-empty range (stop > start) the blob *)
(* holds; the result is the one-block read whatever the budget and whether *)
(* or not stop - start is a multiple of the block length.                  *)
C1_ChunkedEqualsOneBlock ==
    (op = "read" /\ BlobHoldsRange /\ BudgetHoldsASample /\ stop > start)
        => ChunkedIsOneBlock

(* C1's case: a read of two channels that returned after several blocks,   *)
(* the last one shorter than the first.                                    *)
C1_Witness ==
    /\ op = "read" /\ pc = "returned" /\ nchan = 2
    /\ BlobHoldsRange /\ BudgetHoldsASample /\ start > 0
    /\ Len(blocks) >= 2
    /\ blocks[Len(blocks)].blk_stop - blocks[Len(blocks)].blk_start
         < blocks[1].blk_stop - blocks[1].blk_start

(* C2: a blob with fewer than nchan * stop values makes the read fail; it  *)
(* never returns with a column of [0, stop - start) left unwritten.        *)
C2_ShortfallIsFatal ==
    (op = "read" /\ fileLen < nchan * stop /\ Terminal)
        => /\ pc = "raised"
           /\ err # "none"

NominalBlock == Min((stop - start) * nchan, (n_blocks \div nchan) * nchan)

ReadsBounded ==
    /\ \A k \in 1..Len(reads) :
         /\ reads[k] > 0
         /\ reads[k] % nchan = 0
         /\ reads[k] <= n_blocks
         /\ reads[k] <= NominalBlock
         /\ k < Len(reads) => reads[k] = NominalBlock
    /\ SumSeq(reads) <= (stop - start) * nchan

(* C10 as stated: for every nchan >= 1 and stop > start each read asks for *)
(* a positive multiple of nchan values within the budget, only the last    *)
(* read is shorter, and the loop ends having asked for (stop-start)*nchan. *)
C10_AnyChannelCount ==
    (op = "read" /\ nchan >= 1 /\ stop > start)
        => /\ ReadsBounded
           /\ Terminal => SumSeq(reads) = (stop - start) * nchan

(* C10, amended: for 1 <= nchan <= budget and stop > start the same bounds *)
(* hold of every read; the loop has one iteration left per block not yet   *)
(* asked for, and it returns having asked for (stop - start) * nchan       *)
(* values, unless a read comes back with a part of a sample and the        *)
(* reshape raises.                                                         *)
C10_BoundedBlocks ==
    (op = "read" /\ nchan >= 1 /\ BudgetHoldsASample /\ stop > start)
        => /\ ReadsBounded
           /\ pc = "r_loop" =>
                SumSeq(reads) + Len(blk_starts) * NominalBlock
                    \in ((stop - start) * nchan)..((stop - start) * nchan + NominalBlock - 1)
           /\ pc = "returned" => SumSeq(reads) = (stop - start) * nchan
           /\ pc = "raised" => err = "ValueError" /\ reads # <<>>

(* C10's case: a returned read of several blocks whose last is shorter.    *)
C10_Witness ==
    /\ op = "read" /\ pc = "returned" /\ BudgetHoldsASample
    /\ Len(reads) >= 2
    /\ reads[Len(reads)] < reads[1]
    /\ nchan = 2

-----------------------------------------------------------------------------
(* Properties of RawSet.__init__ and _get_info                             *)

(* C6: with a trial count other than 1 the open fails with the TypeError   *)
(* of the trial check, and nothing else has happened: no handle on the     *)
(* blob, no read of it, no reshape, no info, no object returned.           *)
C6_TrialCheckFirst ==
    (op = "raw" /\ trials # 1)
        => /\ fid = "none" /\ ~blobRead /\ ~reshaped /\ IsNone(info)
           /\ pc \in {"w_enter", "w_trials", "raised"}
           /\ pc = "raised" => err = "TypeError"

(* C6's case: the open of a blob-backed header of no trial, preload set,   *)
(* has failed.                                                             *)
C6_Witness ==
    /\ op = "raw" /\ trials = 0 /\ pc = "raised"
    /\ eegdata = "blob" /\ preload

(* C8: the info has one channel per header channel (nbchan), in the        *)
(* header's order, each with the calibration factor 1e-6.                  *)
C8_ChannelCountAndOrder ==
    (op = "raw" /\ ~IsNone(info))
        => LET chs == Val(info).chs
           IN  /\ Val(info).nchan = nbchan
               /\ Len(chs) = nbchan
               /\ \A i \in 1..Len(chs) : chs[i].cal = <<1, -6>>
               /\ Len(chanlocs) > 0 =>
                    \A i \in 1..Len(chs) :
                        i <= Len(chanlocs) /\ chs[i].ch_name = chanlocs[i].labels

-----------------------------------------------------------------------------
(* Properties of EpochsSet.__init__                                        *)

Reconstructs == op = "epochs" /\ IsNone(events_arg) /\ trials > 1

OneLabelEach == \A i \in DOMAIN epoch : Len(epoch[i].eventtype) = 1

LabelOf(i) == epoch[i].eventtype[1]

(* The 0-based first-encounter index of trial i's label *)
FirstSeenCode(i) ==
    LET first == CHOOSE k \in 1..i :
                    /\ LabelOf(k) = LabelOf(i)
                    /\ \A m \in 1..(k - 1) : LabelOf(m) # LabelOf(i)
    IN  Cardinality({LabelOf(m) : m \in 1..first}) - 1

(* C3: reconstructed without a map, the table has one row per trial, in    *)
(* trial order, (latency, 0, first-encounter code of the label).           *)
C3_ReconstructedRows ==
    (Reconstructs /\ OneLabelEach /\ IsNone(event_id_arg) /\ pc # "e_enter")
        => /\ ~IsNone(events)
           /\ Val(events) = [i \in 1..trials |->
                                <<epoch[i].eventurevent, 0, FirstSeenCode(i)>>]

(* C4: reconstructed with the caller's map, the map handed on is the       *)
(* caller's and each row's code is the caller's code of the trial's label. *)
C4_ExplicitMapVerbatim ==
    (Reconstructs /\ ~IsNone(event_id_arg) /\ pc \in {"e_super", "returned"})
        => /\ event_id = event_id_arg
           /\ \A i \in 1..trials :
                /\ LabelOf(i) \in DOMAIN Val(event_id_arg)
                /\ Val(events)[i][3] = Val(event_id_arg)[LabelOf(i)]

(* C5: a load with the caller's map that does not fail has every code of   *)
(* that map in the table's code column.                                    *)
C5_CallerMapValidated ==
    (op = "epochs" /\ ~IsNone(event_id_arg) /\ pc = "returned")
        => /\ ~IsNone(events)
           /\ \A key \in DOMAIN Val(event_id_arg) :
                Val(event_id_arg)[key] \in CodeColumn(Val(events))

(* C9: without a map from the caller, the map is built from the trials'    *)
(* labels, one entry per distinct label, and the load goes on with it,     *)
(* whether the events are reconstructed or supplied.                       *)
C9_DefaultEventId ==
    (op = "epochs" /\ IsNone(event_id_arg) /\ OneLabelEach
       /\ pc \notin {"e_enter", "e_info", "e_default"})
        => /\ err # "UnboundLocalError"
           /\ ~IsNone(event_id)
           /\ DOMAIN Val(event_id) = {LabelOf(i) : i \in DOMAIN epoch}

-----------------------------------------------------------------------------
(* C7: when a segment read or a segmented load has returned or raised, no  *)
(* handle on the blob is open.                                             *)
C7_HandlesScoped ==
    (op \in {"read", "epochs"} /\ Terminal) => fid # "open"

=============================================================================
